---- MODULE Spec2Model ----
(***************************************************************************)
(* Model of markov/metrics/s3_metrics.py: the TrainingMetrics object (the  *)
(* episode aggregator and the model picker run on phase notifications) and *)
(* the EvalMetrics object (episode aggregator, reset counters and the mp4  *)
(* video metrics served to a polling thread).                              *)
(*                                                                         *)
(* Floats are modelled as exact rationals [n, d] in lowest terms, times as *)
(* whole seconds of the wall clock.                                        *)
(***************************************************************************)
EXTENDS Integers, Sequences, FiniteSets, TLC

VARIABLES
    tm,          \* the TrainingMetrics object's fields
    em,          \* the EvalMetrics object's fields
    clock,       \* the last value time.time() returned
    ckpt,        \* the checkpoint state file: None, or the latest checkpoint's name
    hist,        \* history: of the last evaluation window the picker closed, its
                 \* checkpoint and mean, whether it became the best and whether
                 \* it tied with the window before it
    ret,         \* the last call: the exception it raised ("none" if it returned),
                 \* the records it appended to the metrics list, the objects it
                 \* put under the model key
    vq           \* the video-metrics service thread and the in-flight step update

vars == <<tm, em, clock, ckpt, ret, hist, vq>>

----------------------------------------------------------------------------
(* Bounds of the model *)

MaxClock == 1
MaxCkpt == 2
MaxReward == 1
MaxEpisodes == 1
MaxSamples == 2
MaxResets == 2
MaxSteps == 2
MaxLaps == 2

\* 'chkpnt_name': None, and CheckpointStateFile.read() with no state file
None == 0

\* the object the process did not construct: a training worker has no
\* EvalMetrics, an evaluation worker no TrainingMetrics
NoObject == <<>>

----------------------------------------------------------------------------
(* Rational arithmetic standing for Python floats *)

Abs(x) == IF x < 0 THEN -x ELSE x

RECURSIVE GCD(_, _)
GCD(a, b) == IF b = 0 THEN a ELSE GCD(b, a % b)

Rat(n, d) ==
    LET g == GCD(Abs(n), Abs(d))
        s == IF d < 0 THEN -1 ELSE 1
    IN  [n |-> (s * n) \div g, d |-> (s * d) \div g]

RatOf(i) == [n |-> i, d |-> 1]

RatAdd(a, b) == Rat(a.n * b.d + b.n * a.d, a.d * b.d)

RatGE(a, b) == a.n * b.d >= b.n * a.d

RatGT(a, b) == a.n * b.d > b.n * a.d

\* Python int(x): truncation toward zero
PyInt_Up(a) == -((-a.n) \div a.d)
PyInt(a) == IF a.n >= 0 THEN a.n \div a.d ELSE -((-a.n) \div a.d)

\* Python round(x): to the nearest integer, a tie to the even one
PyRound(a) ==
    LET f == a.n \div a.d
        r == a.n - f * a.d
    IN  IF 2 * r < a.d THEN f
        ELSE IF 2 * r > a.d THEN f + 1
        ELSE IF f % 2 = 0 THEN f ELSE f + 1

\* int(round(t * 1000)) of a time in seconds
Millis(t) == PyRound(Rat(t * 1000, 1))

RECURSIVE SumSeq(_)
SumSeq(s) == IF s = <<>> THEN RatOf(0) ELSE RatAdd(Head(s), SumSeq(Tail(s)))

\* statistics.mean of a non-empty list
Mean(s) == LET t == SumSeq(s) IN Rat(t.n, t.d * Len(s))

----------------------------------------------------------------------------
(* Inputs *)

RunPhases == {"HEATUP", "TRAIN", "TEST"}

\* the keys of a step record the handlers read by name, and one of the others
StepKeys == {"progress", "episode_status", "reward", "X", "Y", "steer", "done",
             "episode", "steps"}

ProgVals == {Rat(75, 2)}
RewardVals == {Rat(1, 2)}
FailureStatuses == {"crashed", "off_track", "immobilized", "reversed"}
TrainStatusVals == {"crashed"}

Step(keys, prog, status, reward, x, y, steer, done) ==
    [keys |-> keys, progress |-> prog, episode_status |-> status, reward |-> reward,
     X |-> x, Y |-> y, steer |-> steer, done |-> done]

\* the steps the simulation hands to TrainingMetrics: every key but "episode",
\* which the handler fills in
TrainSteps ==
    {Step(StepKeys \ {"episode"}, p, s, r, 0, 0, 0, FALSE) :
        p \in ProgVals, s \in TrainStatusVals, r \in RewardVals}

\* a step record with one key missing
MalformedTrainSteps ==
    {[m EXCEPT !.keys = m.keys \ {k}] :
        m \in TrainSteps, k \in {"progress", "episode_status", "reward", "steer"}}

\* the times a call may read: the clock does not run backwards here
Nows == {t \in {clock, clock + 1} : t <= MaxClock}

Returned == [err |-> "none", appended |-> <<>>, model_puts |-> <<>>]
Raised(e) == [Returned EXCEPT !.err = e]

----------------------------------------------------------------------------
(* TrainingMetrics *)

\* StepMetrics.validate_dict: every key of the step record is present
validate_dict(keys) == StepKeys \subseteq keys

\* EpisodeStatus.get_episode_status_label
get_episode_status_label(status) ==
    CASE status = "crashed" -> "Crashed"
      [] status = "off_track" -> "Off track"
      [] status = "immobilized" -> "Immobilized"
      [] status = "reversed" -> "Reversed"
      [] status = "in_progress" -> "In progress"
      [] OTHER -> "Off track"

TM_Init(picker) ==
    [start_time |-> 0,
     episode |-> 0,
     episode_reward |-> RatOf(0),
     progress |-> RatOf(0),
     episode_status |-> "",
     metrics |-> 0,
     is_eval |-> TRUE,
     eval_trials |-> 0,
     use_model_picker |-> picker,
     eval_stats_dict |-> [chkpnt_name |-> None, avg_comp_pct |-> RatOf(0)],
     best_chkpnt_stats |-> [name |-> None, avg_comp_pct |-> RatOf(0), time_stamp |-> 0],
     current_eval_pct_list |-> <<>>]

TM_reset(now) ==
    /\ tm' = [tm EXCEPT !.start_time = now,
                        !.episode_reward = RatOf(0),
                        !.progress = RatOf(0)]
    /\ clock' = now
    /\ ret' = Returned
    /\ UNCHANGED <<em, ckpt, vq>>

TrainingMetric(t, now) ==
    [reward_score |-> PyRound(t.episode_reward),
     metric_time |-> Millis(now),
     start_time |-> Millis(t.start_time),
     elapsed_time_in_milliseconds |-> Millis(now - t.start_time),
     episode |-> t.episode,
     trial |-> t.eval_trials,
     phase |-> IF t.is_eval THEN "evaluation" ELSE "training",
     completion_percentage |-> PyInt(t.progress),
     episode_status |-> get_episode_status_label(t.episode_status)]

\* variant of line 120: every closed episode counts
EpisodeStep_Always(is_eval) == 1

\* line 120: 1 if not self._is_eval_ else 0
EpisodeStep(is_eval) == IF ~is_eval THEN 1 ELSE 0

\* line 121: 1 if not self._is_eval_ else 0
TrialStep(is_eval) == IF ~is_eval THEN 1 ELSE 0

TM_append_episode_metrics(now) ==
    /\ tm.metrics < MaxEpisodes
    /\ LET t1 == [tm EXCEPT !.episode = @ + EpisodeStep(tm.is_eval),
                            !.eval_trials = @ + TrialStep(tm.is_eval)]
       IN  /\ tm' = [t1 EXCEPT !.metrics = @ + 1]
           /\ ret' = [Returned EXCEPT !.appended = <<TrainingMetric(t1, now)>>]
    /\ clock' = now
    /\ UNCHANGED <<em, ckpt, vq>>

\* variant of line 140: a sample is taken in every phase
TakesSample_Always(is_eval) == TRUE

\* line 140: if self._is_eval_
TakesSample(is_eval) == is_eval

TM_upload_episode_metrics ==
    /\ Len(tm.current_eval_pct_list) < MaxSamples
    /\ tm' = IF TakesSample(tm.is_eval)
             THEN [tm EXCEPT !.current_eval_pct_list = Append(@, tm.progress)]
             ELSE tm
    /\ ret' = Returned
    /\ UNCHANGED <<em, clock, ckpt, vq>>

\* upload_step_metrics: the fields after the call and the exception it ends with
TM_step_result(t, m) ==
    IF "progress" \notin m.keys THEN [tm |-> t, err |-> "KeyError"]
    ELSE LET t1 == [t EXCEPT !.progress = m.progress] IN
    IF "episode_status" \notin m.keys THEN [tm |-> t1, err |-> "KeyError"]
    ELSE LET t2 == [t1 EXCEPT !.episode_status = m.episode_status] IN
    IF "reward" \notin m.keys THEN [tm |-> t2, err |-> "KeyError"]
    ELSE LET t3 == [t2 EXCEPT !.episode_reward = RatAdd(@, m.reward)] IN
    IF t.is_eval THEN [tm |-> t3, err |-> "none"]
    ELSE LET t4 == [t3 EXCEPT !.episode_reward = RatAdd(@, m.reward)] IN
         [tm |-> t4,
          err |-> IF validate_dict(m.keys \cup {"episode"}) THEN "none"
                  ELSE "MalformedRecord"]

TM_upload_step_metrics(m) ==
    /\ RatGT(RatOf(MaxReward), tm.episode_reward)
    /\ LET r == TM_step_result(tm, m) IN
        /\ tm' = r.tm
        /\ ret' = Raised(r.err)
    /\ UNCHANGED <<em, clock, ckpt, vq>>

\* CheckpointStateFile.read().name: the state file holds the latest name, or
\* there is none, read() returns None and .name raises
read_fails == ckpt = None

\* variants of the comparison of line 175: every window becomes the best; only
\* a strictly higher mean does
IsNewBest_Always(mean_pct, best_avg) == TRUE
IsNewBest_Strict(mean_pct, best_avg) == RatGT(mean_pct, best_avg)

\* line 175: the window's mean replaces the best one
IsNewBest(mean_pct, best_avg) == RatGE(mean_pct, best_avg)

\* variant of lines 167-168: an empty window counts as one sample of 0
WindowMean_Zero(lst) == Mean(IF lst # <<>> THEN lst ELSE <<RatOf(0)>>)

\* lines 167-168: the mean of the window's samples
WindowMean(lst) == Mean(IF lst # <<>> THEN lst ELSE <<RatOf(-1)>>)

\* variant of lines 190-191: the best checkpoint's stats published as the last's
Published_BestAsLast(best, last) == [best_checkpoint |-> best, last_checkpoint |-> best]

\* lines 190-191: the record written under the model key
Published(best, last) == [best_checkpoint |-> best, last_checkpoint |-> last]

\* variant of line 179: the mean to compare the next window's with stays
Threshold_Kept(newbest, mean_pct, avg_comp_pct) == avg_comp_pct

\* line 179, under the comparison of line 175: the mean the next window's is
\* compared with
Threshold(newbest, mean_pct, avg_comp_pct) ==
    IF newbest THEN mean_pct ELSE avg_comp_pct

\* the transition into training with the model picker on (lines 166-196), for
\* the window's checkpoint name `name`
TM_pick(t0, name, now) ==
    LET mean_pct == WindowMean(t0.current_eval_pct_list)
        newbest == IsNewBest(mean_pct, t0.eval_stats_dict.avg_comp_pct)
        best == IF newbest
                THEN [name |-> name, avg_comp_pct |-> mean_pct, time_stamp |-> now]
                ELSE t0.best_chkpnt_stats
        last == [name |-> name, avg_comp_pct |-> mean_pct, time_stamp |-> now]
    IN  [tm |-> [t0 EXCEPT
                    !.eval_trials = 0,
                    !.current_eval_pct_list = <<>>,
                    !.best_chkpnt_stats = best,
                    !.eval_stats_dict =
                        [chkpnt_name |-> IF read_fails THEN name ELSE ckpt,
                         avg_comp_pct |-> Threshold(newbest, mean_pct, @.avg_comp_pct)]],
         put |-> Published(best, last),
         err |-> IF read_fails THEN "AttributeError" ELSE "none"]

TM_update(data, now) ==
    /\ LET t0 == [tm EXCEPT !.is_eval = (data # "TRAIN")] IN
       IF ~(~t0.is_eval /\ t0.use_model_picker)
       THEN /\ tm' = t0
            /\ ret' = Returned
            /\ UNCHANGED clock
       ELSE IF t0.eval_stats_dict.chkpnt_name = None /\ read_fails
       THEN /\ tm' = t0
            /\ ret' = Raised("AttributeError")
            /\ UNCHANGED clock
       ELSE LET name == IF t0.eval_stats_dict.chkpnt_name = None
                        THEN ckpt ELSE t0.eval_stats_dict.chkpnt_name
                r == TM_pick(t0, name, now)
            IN  /\ tm' = r.tm
                /\ ret' = [Returned EXCEPT !.err = r.err, !.model_puts = <<r.put>>]
                /\ clock' = now
    /\ UNCHANGED <<em, ckpt, vq>>

\* the trainer writes a new checkpoint
NewCheckpoint ==
    /\ ckpt < MaxCkpt
    /\ ckpt' = ckpt + 1
    /\ UNCHANGED <<tm, em, clock, ret, hist, vq>>

\* the state file is gone (removed, or not yet synchronised)
LoseCheckpoint ==
    /\ ckpt # None
    /\ ckpt' = None
    /\ UNCHANGED <<tm, em, clock, ret, hist, vq>>

\* update(data) closes a window of the picker: it reaches line 166
Closes(data) ==
    /\ data = "TRAIN"
    /\ tm.use_model_picker
    /\ ~(tm.eval_stats_dict.chkpnt_name = None /\ read_fails)

\* the history after update(data): the evaluation window just closed, with
\* tie telling whether its mean is that of the evaluation window closed before
\* it, and whether that one became the best ("accepted") or not ("rejected")
Track(data) ==
    IF Closes(data) /\ tm.is_eval
    THEN LET mean_pct == WindowMean(tm.current_eval_pct_list)
         IN  <<[mean |-> mean_pct,
                accepted |-> IsNewBest(mean_pct, tm.eval_stats_dict.avg_comp_pct),
                name |-> IF tm.eval_stats_dict.chkpnt_name = None
                         THEN ckpt ELSE tm.eval_stats_dict.chkpnt_name,
                tie |-> IF hist = <<>> \/ hist[1].mean # mean_pct THEN "none"
                        ELSE IF hist[1].accepted THEN "accepted" ELSE "rejected"]>>
    ELSE hist

----------------------------------------------------------------------------
(* Specifications of TrainingMetrics *)

TM_Start ==
    /\ \E picker \in BOOLEAN : tm = TM_Init(picker)
    /\ em = NoObject
    /\ clock = 0
    /\ ret = Returned
    /\ hist = <<>>
    /\ vq = <<>>

Init == TM_Start /\ ckpt = 1

Next ==
    \/ \E now \in Nows : TM_reset(now) /\ UNCHANGED hist
    \/ \E now \in Nows : TM_append_episode_metrics(now) /\ UNCHANGED hist
    \/ TM_upload_episode_metrics /\ UNCHANGED hist
    \/ \E m \in TrainSteps : TM_upload_step_metrics(m) /\ UNCHANGED hist
    \/ \E data \in RunPhases, now \in Nows : TM_update(data, now) /\ UNCHANGED hist
    \/ NewCheckpoint

\* the documented environment: a checkpoint exists whenever training starts and
\* every step record is complete
Spec == Init /\ [][Next]_vars

NextPicker ==
    \/ TM_reset(clock) /\ UNCHANGED hist
    \/ TM_append_episode_metrics(clock) /\ UNCHANGED hist
    \/ TM_upload_episode_metrics /\ UNCHANGED hist
    \/ \E m \in TrainSteps : TM_upload_step_metrics(m) /\ UNCHANGED hist
    \/ \E data \in RunPhases : TM_update(data, clock) /\ hist' = Track(data)
    \/ NewCheckpoint

\* as Spec with the history of the evaluation windows kept, and the clock held:
\* the picker's choice reads no time
SpecPicker == Init /\ [][NextPicker]_vars

InitFaults == TM_Start /\ ckpt \in {None, 1}

NextFaults ==
    \/ Next
    \/ \E m \in MalformedTrainSteps : TM_upload_step_metrics(m) /\ UNCHANGED hist
    \/ LoseCheckpoint

\* as Spec, and the state file may be missing and a step record incomplete
SpecFaults == InitFaults /\ [][NextFaults]_vars

\* the history of a training worker: the progress of the last step ingested
\* since the last reset() (0.0 if none), and the progress each evaluation
\* episode completed since the last transition into training ended with
TH_Init == [last_prog |-> RatOf(0), samples |-> <<>>]

InitTrainHist ==
    /\ \E picker \in BOOLEAN : tm = TM_Init(picker)
    /\ em = NoObject
    /\ clock = 0
    /\ ckpt = 1
    /\ ret = Returned
    /\ hist = TH_Init
    /\ vq = <<>>

NextTrainHist ==
    \/ TM_reset(clock) /\ hist' = [hist EXCEPT !.last_prog = RatOf(0)]
    \/ TM_append_episode_metrics(clock) /\ UNCHANGED hist
    \/ /\ TM_upload_episode_metrics
       /\ hist' = IF tm.is_eval
                  THEN [hist EXCEPT !.samples = Append(@, hist.last_prog)]
                  ELSE hist
    \/ \E m \in TrainSteps :
          TM_upload_step_metrics(m) /\ hist' = [hist EXCEPT !.last_prog = m.progress]
    \/ \E data \in RunPhases :
          /\ TM_update(data, clock)
          /\ hist' = IF Closes(data) THEN [hist EXCEPT !.samples = <<>>] ELSE hist
    \/ NewCheckpoint

\* as SpecPicker, with the history of the worker's episodes kept
SpecTrainHist == InitTrainHist /\ [][NextTrainHist]_vars

----------------------------------------------------------------------------
(* EvalMetrics *)

\* float('inf') and the finite lap times, in milliseconds
Inf == [inf |-> TRUE, v |-> 0]
Finite(v) == [inf |-> FALSE, v |-> v]

\* variant of line 264: the last lap's time is kept
MinLap_Last(elapsed, best) == Finite(elapsed)

\* min(elapsed, self._best_lap_time)
MinLap(elapsed, best) ==
    IF best.inf \/ elapsed <= best.v THEN Finite(elapsed) ELSE best

\* math.sqrt, on the squares the positions give
Sqrt(n) == CHOOSE r \in 0..n : r * r = n

\* the keys of Mp4VideoMetrics, in the order lines 286-302 write them and lines
\* 320-327 read them
VideoFields ==
    <<"lap_counter", "completion_percentage", "reset_counter", "throttle",
      "steering", "best_lap_time", "total_evaluation_time", "done">>

\* Mp4VideoMetrics.get_empty_dict
get_empty_dict ==
    [lap_counter |-> 0, completion_percentage |-> RatOf(0), reset_counter |-> 0,
     throttle |-> RatOf(0), steering |-> 0, best_lap_time |-> Finite(0),
     total_evaluation_time |-> 0, done |-> FALSE]

EM_Init(is_continuous) ==
    [is_continuous |-> is_continuous,
     start_time |-> 0,
     number_of_trials |-> 0,
     progress |-> RatOf(0),
     episode_status |-> "",
     metrics |-> 0,
     agent_xy |-> <<>>,
     prev_step_time |-> <<>>,
     reset_count_dict |-> [s \in FailureStatuses |-> 0],
     best_lap_time |-> Inf,
     total_evaluation_time |-> 0,
     video_metrics |-> get_empty_dict,
     reset_count_sum |-> 0]

\* the sum of the four counters of reset_count_dict
ResetCount(e) ==
    e.reset_count_dict["crashed"] + e.reset_count_dict["immobilized"]
        + e.reset_count_dict["off_track"] + e.reset_count_dict["reversed"]

\* variant of lines 238-242: the window's counts are dropped, not folded
Folded_Dropped(e) == e.reset_count_sum

\* lines 238-242: the cumulative counter after the window's counts are folded in
Folded(e) == e.reset_count_sum + ResetCount(e)

EM_reset(now) ==
    /\ em' = [em EXCEPT !.start_time = now,
                        !.reset_count_sum = Folded(em),
                        !.reset_count_dict = [s \in FailureStatuses |-> 0]]
    /\ clock' = now
    /\ ret' = Returned
    /\ UNCHANGED <<tm, ckpt>>

EvalMetric(e, now) ==
    [completion_percentage |-> PyInt(e.progress),
     metric_time |-> Millis(now),
     start_time |-> Millis(e.start_time),
     elapsed_time_in_milliseconds |-> Millis(now - e.start_time),
     trial |-> e.number_of_trials,
     episode_status |-> get_episode_status_label(e.episode_status),
     crash_count |-> e.reset_count_dict["crashed"],
     immobilized_count |-> e.reset_count_dict["immobilized"],
     off_track_count |-> e.reset_count_dict["off_track"],
     reversed_count |-> e.reset_count_dict["reversed"],
     reset_count |-> ResetCount(e)]

EM_append_episode_metrics(now) ==
    /\ em.metrics < MaxLaps
    /\ LET e1 == [em EXCEPT !.number_of_trials = @ + 1]
           eval_metric == EvalMetric(e1, now)
       IN  /\ em' = [e1 EXCEPT
                       !.best_lap_time =
                           MinLap(eval_metric.elapsed_time_in_milliseconds, @),
                       !.total_evaluation_time =
                           @ + eval_metric.elapsed_time_in_milliseconds,
                       !.metrics = @ + 1]
           /\ ret' = [Returned EXCEPT !.appended = <<eval_metric>>]
    /\ clock' = now
    /\ UNCHANGED <<tm, ckpt>>

EM_upload_episode_metrics ==
    /\ ret' = Returned
    /\ UNCHANGED <<tm, em, clock, ckpt>>

\* variant of lines 290-295: the cumulative counter is left out in every mode
ShownResets_Window(e) == ResetCount(e)

\* lines 290-295: the reset counter the video shows
ShownResets(e) ==
    ResetCount(e) + (IF e.is_continuous THEN e.reset_count_sum ELSE 0)

\* lines 286-302: the values _update_mp4_video_metrics writes to the dictionary
VideoValues(e, m, actual_speed, now) ==
    [lap_counter |-> e.number_of_trials,
     completion_percentage |-> e.progress,
     reset_counter |-> ShownResets(e),
     throttle |-> actual_speed,
     steering |-> m.steer,
     best_lap_time |-> e.best_lap_time,
     total_evaluation_time |-> e.total_evaluation_time + Millis(now - e.start_time),
     done |-> m.done]

\* variant of lines 308-309: every status counts as a crash
CountStatus_AsCrash(d, status) == [d EXCEPT !["crashed"] = @ + 1]

\* lines 308-309: the counter of the step's status, if it has one, goes up
CountStatus(d, status) ==
    IF status \in DOMAIN d THEN [d EXCEPT ![status] = @ + 1] ELSE d

\* upload_step_metrics down to line 284: the fields then, the exception the
\* call ends with, and the values lines 286-302 go on to write if there is none
EM_step_result(e, m, now) ==
    LET none == get_empty_dict IN
    IF "progress" \notin m.keys THEN [em |-> e, err |-> "KeyError", video |-> none]
    ELSE LET e1 == [e EXCEPT !.progress = m.progress] IN
    IF "episode_status" \notin m.keys THEN [em |-> e1, err |-> "KeyError", video |-> none]
    ELSE LET e2 == [e1 EXCEPT !.episode_status = m.episode_status]
             e3 == [e2 EXCEPT !.reset_count_dict = CountStatus(@, m.episode_status)]
         IN
    IF ~validate_dict(m.keys \cup {"episode"})
    THEN [em |-> e3, err |-> "MalformedRecord", video |-> none]
    ELSE LET delta_time == IF e3.agent_xy # <<>> THEN now - e3.prev_step_time[1] ELSE 1 IN
    IF e3.agent_xy # <<>> /\ delta_time = 0
    THEN [em |-> e3, err |-> "ZeroDivisionError", video |-> none]
    ELSE LET actual_speed ==
                 IF e3.agent_xy # <<>>
                 THEN Rat(Sqrt((e3.agent_xy[1] - m.X) * (e3.agent_xy[1] - m.X)
                               + (e3.agent_xy[2] - m.Y) * (e3.agent_xy[2] - m.Y)),
                          delta_time)
                 ELSE RatOf(0)
             e4 == [e3 EXCEPT !.agent_xy = <<m.X, m.Y>>, !.prev_step_time = <<now>>]
         IN  [em |-> e4, err |-> "none", video |-> VideoValues(e4, m, actual_speed, now)]

\* the whole of upload_step_metrics, with no reader in between
EM_upload_step_metrics(m, now) ==
    /\ ResetCount(em) + em.reset_count_sum
          + (IF "episode_status" \in m.keys /\ m.episode_status \in FailureStatuses
             THEN 1 ELSE 0) <= MaxResets
    /\ LET r == EM_step_result(em, m, now) IN
        /\ em' = IF r.err = "none" THEN [r.em EXCEPT !.video_metrics = r.video] ELSE r.em
        /\ ret' = Raised(r.err)
    /\ clock' = now
    /\ UNCHANGED <<tm, ckpt>>

\* _handle_get_video_metrics, with no writer in between: the response
EM_handle_get_video_metrics(e) == e.video_metrics

----------------------------------------------------------------------------
(* Specifications of EvalMetrics *)


EvalStatusVals == {"in_progress", "crashed"}

\* the steps the simulation hands to EvalMetrics
EvalSteps ==
    {Step(StepKeys \ {"episode"}, p, s, RatOf(0), xy[1], xy[2], 0, d) :
        p \in ProgVals, s \in EvalStatusVals, xy \in {<<0, 0>>, <<3, 4>>},
        d \in BOOLEAN}

\* a step record of a crash with one key missing
MalformedEvalSteps ==
    {[m EXCEPT !.keys = m.keys \ {k}] :
        m \in {n \in EvalSteps : n.episode_status = "crashed" /\ n.X = 0 /\ ~n.done},
        k \in {"progress", "episode_status", "steer"}}

\* the times a step may read when the clock runs: later than the step before
StepNows == {t \in Nows : em.prev_step_time = <<>> \/ t > em.prev_step_time[1]}

\* the times a step may read when the clock may stall or be set back
AnyNows == 0..MaxClock

EM_Start ==
    /\ tm = NoObject
    /\ \E is_continuous \in BOOLEAN : em = EM_Init(is_continuous)
    /\ clock = 0
    /\ ckpt = None
    /\ ret = Returned
    /\ hist = <<>>

InitEval == EM_Start /\ vq = <<>>

NextEval ==
    \/ \E now \in Nows : EM_reset(now) /\ UNCHANGED <<hist, vq>>
    \/ \E now \in Nows : EM_append_episode_metrics(now) /\ UNCHANGED <<hist, vq>>
    \/ EM_upload_episode_metrics /\ UNCHANGED <<hist, vq>>
    \/ \E m \in EvalSteps, now \in StepNows : EM_upload_step_metrics(m, now) /\ UNCHANGED <<hist, vq>>

\* the documented environment: complete step records, a running clock, and the
\* video metrics read between two steps
SpecEval == InitEval /\ [][NextEval]_vars

\* the steps before the one that ends the episode
RunningSteps == {m \in EvalSteps : ~m.done}

NextEvalFaults ==
    \/ \E now \in Nows : EM_reset(now) /\ UNCHANGED <<hist, vq>>
    \/ \E now \in Nows : EM_append_episode_metrics(now) /\ UNCHANGED <<hist, vq>>
    \/ EM_upload_episode_metrics /\ UNCHANGED <<hist, vq>>
    \/ \E m \in RunningSteps, now \in AnyNows :
          EM_upload_step_metrics(m, now) /\ UNCHANGED <<hist, vq>>
    \/ \E m \in MalformedEvalSteps, now \in AnyNows :
          EM_upload_step_metrics(m, now) /\ UNCHANGED <<hist, vq>>

\* as SpecEval, and the clock may stall or be set back between two steps and a
\* step record may be incomplete
SpecEvalFaults == InitEval /\ [][NextEvalFaults]_vars

\* the history of an evaluation worker: the progress of the last step ingested,
\* the steps of each failure status ingested since the last reset() and since
\* construction, the elapsed times of the episodes closed, in order, and the
\* time the episode in flight began (the last reset() or close)
EH_Init ==
    [last_prog |-> RatOf(0),
     since_reset |-> [s \in FailureStatuses |-> 0],
     failures |-> 0,
     closed |-> <<>>,
     ep_start |-> 0]

EH_step(h, m) ==
    LET fails == m.episode_status \in FailureStatuses IN
    [h EXCEPT !.last_prog = m.progress,
              !.since_reset = IF fails THEN [@ EXCEPT ![m.episode_status] = @ + 1] ELSE @,
              !.failures = IF fails THEN @ + 1 ELSE @]

EH_reset(h, now) ==
    [h EXCEPT !.since_reset = [s \in FailureStatuses |-> 0], !.ep_start = now]

EH_append(h, now, eval_metric) ==
    [h EXCEPT !.closed = Append(@, eval_metric.elapsed_time_in_milliseconds),
              !.ep_start = now]

InitEvalHist ==
    /\ tm = NoObject
    /\ \E is_continuous \in BOOLEAN : em = EM_Init(is_continuous)
    /\ clock = 0
    /\ ckpt = None
    /\ ret = Returned
    /\ hist = EH_Init
    /\ vq = <<>>

NextEvalHist ==
    \/ \E now \in Nows : EM_reset(now) /\ hist' = EH_reset(hist, now) /\ UNCHANGED vq
    \/ \E now \in Nows :
          /\ EM_append_episode_metrics(now)
          /\ hist' = EH_append(hist, now, ret'.appended[1])
          /\ UNCHANGED vq
    \/ EM_upload_episode_metrics /\ UNCHANGED <<hist, vq>>
    \/ \E m \in EvalSteps, now \in StepNows :
          EM_upload_step_metrics(m, now) /\ hist' = EH_step(hist, m) /\ UNCHANGED vq

\* as SpecEval, with the history of the worker kept
SpecEvalHist == InitEvalHist /\ [][NextEvalHist]_vars

\* a worker of either kind
InitWorkers == InitTrainHist \/ InitEvalHist

NextWorkers ==
    \/ DOMAIN tm # {} /\ NextTrainHist
    \/ DOMAIN em # {} /\ NextEvalHist

SpecWorkers == InitWorkers /\ [][NextWorkers]_vars

----------------------------------------------------------------------------
(* The video metrics service: _handle_get_video_metrics runs on the service's
   thread while upload_step_metrics runs on the simulation's; a thread may be
   switched out between two accesses of the dictionary *)

VideoFieldSet == {VideoFields[i] : i \in 1..Len(VideoFields)}

\* vq: upd counts the step updates begun and ver tells, for each key of the
\* dictionary, the update that wrote its value (0: none has); wpc is the key
\* the update in flight writes next (0: no update in flight) and pending the
\* values it writes; rpc is the key the request in flight reads next (0: no
\* request yet, Len(VideoFields) + 1: the response is returned), resp the
\* values it has read and rver the updates that wrote them
VQ_Init ==
    [upd |-> 0, wpc |-> 0, pending |-> get_empty_dict,
     ver |-> [f \in VideoFieldSet |-> 0],
     rpc |-> 0, resp |-> get_empty_dict,
     rver |-> [f \in VideoFieldSet |-> 0]]

\* upload_step_metrics down to line 284
VideoBeginStep(m, now) ==
    /\ vq.wpc = 0
    /\ vq.upd < MaxSteps
    /\ ResetCount(em) + em.reset_count_sum
          + (IF m.episode_status \in FailureStatuses THEN 1 ELSE 0) <= MaxResets
    /\ LET r == EM_step_result(em, m, now) IN
        /\ r.err = "none"
        /\ em' = r.em
        /\ vq' = [vq EXCEPT !.upd = @ + 1, !.wpc = 1, !.pending = r.video]
    /\ clock' = now
    /\ UNCHANGED <<tm, ckpt, ret, hist>>

\* one of the assignments of lines 286-302; upload_step_metrics returns after
\* the last
VideoWriteField ==
    /\ vq.wpc \in 1..Len(VideoFields)
    /\ LET f == VideoFields[vq.wpc] IN
        /\ em' = [em EXCEPT !.video_metrics[f] = vq.pending[f]]
        /\ vq' = [vq EXCEPT !.ver[f] = vq.upd,
                            !.wpc = IF @ = Len(VideoFields) THEN 0 ELSE @ + 1]
    /\ ret' = IF vq.wpc = Len(VideoFields) THEN Returned ELSE ret
    /\ UNCHANGED <<tm, clock, ckpt, hist>>

\* the service receives a request
VideoRequest ==
    /\ vq.rpc \in {0, Len(VideoFields) + 1}
    /\ vq' = [vq EXCEPT !.rpc = 1, !.resp = get_empty_dict,
                        !.rver = [f \in VideoFieldSet |-> 0]]
    /\ UNCHANGED <<tm, em, clock, ckpt, ret, hist>>

\* one of the reads of lines 320-327; the response is returned after the last
VideoReadField ==
    /\ vq.rpc \in 1..Len(VideoFields)
    /\ LET f == VideoFields[vq.rpc] IN
        vq' = [vq EXCEPT !.resp[f] = em.video_metrics[f],
                         !.rver[f] = vq.ver[f],
                         !.rpc = @ + 1]
    /\ UNCHANGED <<tm, em, clock, ckpt, ret, hist>>

InitVideo == EM_Start /\ vq = VQ_Init

\* the steps of a car that crashes where it stands: each raises the reset
\* counter, so that no two updates write the same values
VideoSteps == {m \in EvalSteps : m.episode_status = "crashed" /\ m.X = 0}

NextVideo ==
    \/ \E m \in VideoSteps, now \in StepNows : VideoBeginStep(m, now)
    \/ VideoWriteField
    \/ VideoRequest
    \/ VideoReadField

\* the steps of an episode and the requests of the service, with the accesses
\* of the dictionary by the two threads interleaved
SpecVideo == InitVideo /\ [][NextVideo]_vars

----------------------------------------------------------------------------
(* Properties of the model picker *)

\* the checkpoint name of the window update() closes: the one kept since the
\* last transition, or the one line 164 reads
WindowName ==
    IF tm.eval_stats_dict.chkpnt_name = None THEN ckpt
    ELSE tm.eval_stats_dict.chkpnt_name

\* C1: the best mean completion never decreases from a state to the next
C1_BestAvgNonDecreasing ==
    [][RatGE(tm'.best_chkpnt_stats.avg_comp_pct, tm.best_chkpnt_stats.avg_comp_pct)]_vars

\* a window of mean 75/2 became the best, above the initial 0
C1_Witness ==
    /\ tm.best_chkpnt_stats.avg_comp_pct = Rat(75, 2)
    /\ ret.model_puts # <<>>
    /\ ret.model_puts[1].last_checkpoint.avg_comp_pct = Rat(75, 4)

\* C2 as stated: after two consecutive evaluation windows of the same mean, the
\* best checkpoint is the second window's, whatever came before them
C2_TieBreak_Any ==
    (hist # <<>> /\ hist[1].tie # "none") => tm.best_chkpnt_stats.name = hist[1].name

\* C2: after two consecutive evaluation windows of the same mean, the best
\* checkpoint is the second window's if the first became the best; if the first
\* did not, the second does not either
C2_TieBreak ==
    hist # <<>> =>
        /\ hist[1].tie = "accepted" =>
              /\ hist[1].accepted
              /\ tm.best_chkpnt_stats.name = hist[1].name
              /\ tm.best_chkpnt_stats.avg_comp_pct = hist[1].mean
        /\ hist[1].tie = "rejected" => ~hist[1].accepted

\* two windows tie at a positive mean, the first became the best under the first
\* checkpoint's name and the second runs under the second checkpoint's
C2_Witness ==
    /\ hist # <<>>
    /\ hist[1].tie = "accepted"
    /\ hist[1].name = 2
    /\ RatGT(hist[1].mean, RatOf(0))
    /\ ret.model_puts # <<>>
    /\ ret.model_puts[1].last_checkpoint.name = 2

\* C3: a TRAIN notification with no completion sample collected returns, writes
\* a last record of mean -1 and leaves the best checkpoint's stats as they were
C3_EmptyWindow ==
    [][\A now \in Nows :
          (tm.use_model_picker /\ tm.current_eval_pct_list = <<>>
              /\ ~tm'.is_eval /\ TM_update("TRAIN", now))
          => /\ ret'.err = "none"
             /\ Len(ret'.model_puts) = 1
             /\ ret'.model_puts[1].last_checkpoint.avg_comp_pct = RatOf(-1)
             /\ ret'.model_puts[1].best_checkpoint = tm.best_chkpnt_stats
             /\ tm'.best_chkpnt_stats = tm.best_chkpnt_stats]_vars

\* an empty window was closed after a window had become the best
C3_Witness ==
    /\ ret.err = "none"
    /\ ret.model_puts # <<>>
    /\ ret.model_puts[1].last_checkpoint.avg_comp_pct = RatOf(-1)
    /\ RatGT(tm.best_chkpnt_stats.avg_comp_pct, RatOf(0))
    /\ tm.best_chkpnt_stats.name # None

\* C5: a step record with a key missing raises the validation error and leaves
\* the progress, the status and the reward as they were
C5_MalformedRejected ==
    [][\A m \in MalformedTrainSteps :
          TM_upload_step_metrics(m)
          => (ret'.err = "MalformedRecord" /\ tm' = tm)]_vars

\* C7: a step adds its reward to the episode's reward once, in either phase
C7_RewardCountedOnce ==
    [][\A m \in TrainSteps :
          TM_upload_step_metrics(m)
          => tm'.episode_reward = RatAdd(tm.episode_reward, m.reward)]_vars

\* C8: a notification other than the one that takes an evaluation into training
\* with the model picker on writes nothing and leaves the best checkpoint, the
\* samples, the trial counter and the window's checkpoint name as they were
C8_OnlyEvalToTrain ==
    [][\A data \in RunPhases, now \in Nows :
          (~(tm.is_eval /\ data = "TRAIN" /\ tm.use_model_picker)
              /\ TM_update(data, now))
          => /\ ret'.model_puts = <<>>
             /\ tm'.best_chkpnt_stats = tm.best_chkpnt_stats
             /\ tm'.current_eval_pct_list = tm.current_eval_pct_list
             /\ tm'.eval_trials = tm.eval_trials
             /\ tm'.eval_stats_dict.chkpnt_name = tm.eval_stats_dict.chkpnt_name]_vars

\* C9: the transition from evaluation into training with the model picker on
\* writes one record; its last entry is the window's checkpoint name and mean,
\* its best entry the best checkpoint's stats as this transition leaves them
C9_OneRecord ==
    [][\A now \in Nows :
          (tm.is_eval /\ ~tm'.is_eval /\ tm.use_model_picker
              /\ TM_update("TRAIN", now))
          => /\ Len(ret'.model_puts) = 1
             /\ ret'.model_puts[1].last_checkpoint =
                   [name |-> WindowName,
                    avg_comp_pct |-> WindowMean(tm.current_eval_pct_list),
                    time_stamp |-> now]
             /\ ret'.model_puts[1].best_checkpoint = tm'.best_chkpnt_stats]_vars

\* a window with samples was closed and did not become the best: the record's
\* last entry differs from its best entry
C9_Witness ==
    /\ ret.model_puts # <<>>
    /\ RatGE(ret.model_puts[1].last_checkpoint.avg_comp_pct, RatOf(0))
    /\ RatGT(ret.model_puts[1].best_checkpoint.avg_comp_pct,
             ret.model_puts[1].last_checkpoint.avg_comp_pct)
    /\ ret.model_puts[1].best_checkpoint = tm.best_chkpnt_stats

\* C10: with no state file at the end of the transition from evaluation into
\* training, update() returns and the window's checkpoint name stays
C10_NoCheckpointNoFailure ==
    [][\A now \in Nows :
          (tm.is_eval /\ tm.use_model_picker /\ read_fails
              /\ tm.eval_stats_dict.chkpnt_name # None
              /\ TM_update("TRAIN", now))
          => /\ ret'.err = "none"
             /\ tm'.eval_stats_dict.chkpnt_name = tm.eval_stats_dict.chkpnt_name]_vars

----------------------------------------------------------------------------
(* Properties of EvalMetrics *)

\* C4: no response of the video metrics service holds values written by two
\* different step updates
C4_NoTornRead ==
    (vq.rpc = Len(VideoFields) + 1) =>
        \A f, g \in VideoFieldSet :
            (vq.rver[f] # 0 /\ vq.rver[g] # 0) => vq.rver[f] = vq.rver[g]

\* C6: a step that reads a time not later than the step before returns and sets
\* the speed of the video metrics to 0
C6_SpeedFallback ==
    [][\A m \in EvalSteps, now \in AnyNows :
          (em.agent_xy # <<>> /\ now <= em.prev_step_time[1]
              /\ EM_upload_step_metrics(m, now))
          => (ret'.err = "none" /\ em'.video_metrics.throttle = RatOf(0))]_vars

\* the sum and the least of a sequence of times
RECURSIVE SumTimes(_)
SumTimes(q) == IF q = <<>> THEN 0 ELSE Head(q) + SumTimes(Tail(q))
LeastTime(q) == CHOOSE t \in {q[i] : i \in 1..Len(q)} : \A i \in 1..Len(q) : t <= q[i]

\* the failure steps ingested since the last reset(), of all statuses
SinceReset ==
    hist.since_reset["crashed"] + hist.since_reset["immobilized"]
        + hist.since_reset["off_track"] + hist.since_reset["reversed"]

C13_ContinuousMode ==
    [][\A m \in EvalSteps, now \in Nows :
          (EM_upload_step_metrics(m, now) /\ ret'.err = "none")
          => em'.video_metrics.reset_counter =
                (hist'.since_reset["crashed"] + hist'.since_reset["immobilized"]
                    + hist'.since_reset["off_track"] + hist'.since_reset["reversed"])
                + (IF em.is_continuous
                   THEN hist'.failures
                        - (hist'.since_reset["crashed"] + hist'.since_reset["immobilized"]
                           + hist'.since_reset["off_track"] + hist'.since_reset["reversed"])
                   ELSE 0)]_vars

\* a continuous race shows 2 after a window of one crash was folded and the
\* next window had its first
C13_Witness ==
    /\ em.is_continuous
    /\ em.reset_count_sum = 1
    /\ SinceReset = 1
    /\ em.video_metrics.reset_counter = 2

\* C15: the total evaluation time a step writes to the video metrics is the sum
\* of the elapsed times of the episodes closed plus the time since the episode
\* in flight began
C15_TotalEvaluationTime ==
    [][\A m \in EvalSteps, now \in Nows :
          (EM_upload_step_metrics(m, now) /\ ret'.err = "none")
          => em'.video_metrics.total_evaluation_time =
                SumTimes(hist.closed) + Millis(now - hist.ep_start)]_vars

\* C16: the best lap time is the least elapsed time of the episodes closed, and
\* infinity while none is
C16_BestLapTime ==
    em.best_lap_time =
        IF hist.closed = <<>> THEN Inf ELSE Finite(LeastTime(hist.closed))

\* two episodes are closed, the second slower than the first
C16_Witness ==
    /\ Len(hist.closed) = 2
    /\ hist.closed[1] < hist.closed[2]
    /\ em.best_lap_time = Finite(hist.closed[1])

\* C18: once a step has updated them, the video metrics show the trial counter
\* and the reset counter of the current state
C18_SnapshotIsView ==
    em.agent_xy # <<>> =>
        /\ em.video_metrics.lap_counter = em.number_of_trials
        /\ em.video_metrics.reset_counter = ShownResets(em)

\* C20: the cumulative counter plus the window's counters is the number of
\* failure steps ingested, no counter is negative, and in a continuous race
\* the reset counter of the video metrics never goes down
C20_ResetConservation ==
    [][/\ em'.reset_count_sum + ResetCount(em') = hist'.failures
       /\ em'.reset_count_sum >= 0
       /\ \A st \in FailureStatuses : em'.reset_count_dict[st] >= 0
       /\ em.is_continuous =>
             em'.video_metrics.reset_counter >= em.video_metrics.reset_counter]_vars

\* a window of one crash was folded by reset(), the next window has one, and
\* the video metrics of the continuous race show both
C20_Witness ==
    /\ em.is_continuous
    /\ em.reset_count_sum = 1
    /\ ResetCount(em) = 1
    /\ hist.failures = 2
    /\ em.video_metrics.reset_counter = 2
    /\ em.start_time = 1

----------------------------------------------------------------------------
(* Properties of the episode records and counters of both classes *)

C14_EpisodeCounter ==
    [][/\ tm'.episode >= tm.episode
       /\ TM_append_episode_metrics(clock)
          => tm'.episode = tm.episode + (IF tm.is_eval THEN 0 ELSE 1)]_vars

\* an episode was closed in the training phase, the first one: the counter and
\* the record hold 1
C14_Witness ==
    /\ ret.appended # <<>>
    /\ ret.appended[1].phase = "training"
    /\ ret.appended[1].episode = 1
    /\ tm.episode = 1

\* C17: append_episode_metrics() of TrainingMetrics in the evaluation phase
\* adds 1 to the trial counter
C17_TrialCounter ==
    [][(tm.is_eval /\ TM_append_episode_metrics(clock))
          => tm'.eval_trials = tm.eval_trials + 1]_vars

\* C19: with the picker, the mean of a transition from evaluation into training
\* is that of the progress values the evaluation episodes completed since the
\* transition before ended with; the sample list is empty in training, and no
\* operation in training changes it
C19_SamplesOfOneWindow ==
    [][/\ (tm.use_model_picker /\ ~tm'.is_eval) => tm'.current_eval_pct_list = <<>>
       /\ ~tm.is_eval => tm'.current_eval_pct_list = tm.current_eval_pct_list
       /\ (tm.use_model_picker /\ tm.is_eval /\ TM_update("TRAIN", clock))
          => ret'.model_puts[1].last_checkpoint.avg_comp_pct =
                IF hist.samples = <<>> THEN RatOf(-1) ELSE Mean(hist.samples)]_vars

\* a window of two evaluation episodes, one ended at 37.5 and one at 0, was
\* closed: the mean is 18.75 and the list is empty
C19_Witness ==
    /\ tm.use_model_picker
    /\ ~tm.is_eval
    /\ tm.current_eval_pct_list = <<>>
    /\ hist.samples = <<>>
    /\ ret.model_puts # <<>>
    /\ ret.model_puts[1].last_checkpoint.avg_comp_pct = Rat(75, 4)

\* C21: in every record the picker publishes the best mean is at least the last
\* one and at least 0, and in every state the best mean is the mean the next
\* window's is compared with
C21_BestIsThreshold ==
    /\ tm.best_chkpnt_stats.avg_comp_pct = tm.eval_stats_dict.avg_comp_pct
    /\ ret.model_puts # <<>> =>
          /\ RatGE(ret.model_puts[1].best_checkpoint.avg_comp_pct,
                   ret.model_puts[1].last_checkpoint.avg_comp_pct)
          /\ RatGE(ret.model_puts[1].best_checkpoint.avg_comp_pct, RatOf(0))

\* after a window of mean 37.5 became the best, an empty window was closed: the
\* record holds 37.5 above -1, and 37.5 is what the next mean is compared with
C21_Witness ==
    /\ ret.model_puts # <<>>
    /\ ret.model_puts[1].best_checkpoint.avg_comp_pct = Rat(75, 2)
    /\ ret.model_puts[1].last_checkpoint.avg_comp_pct = RatOf(-1)
    /\ tm.eval_stats_dict.avg_comp_pct = Rat(75, 2)

====
